---- MODULE Spec2Model ----
(***************************************************************************)
(* State-machine model of python/oio/event/beanstalk.py: the buffered      *)
(* Reader, the BaseParser, the Connection, the ConnectionPool and the      *)
(* Beanstalk client's execute_command / parse_response engine, together    *)
(* with the network and the queue server they talk to.                     *)
(*                                                                         *)
(* A byte string is a sequence of units.  A unit is one byte ("x", " ",    *)
(* "\r", "\n", a decimal digit) or one protocol word ("RESERVED", "put")   *)
(* that travels as an indivisible run of bytes; len() counts units.        *)
(***************************************************************************)
EXTENDS Integers, Sequences, FiniteSets, TLC

\* ------------------------------------------------------------------ bounds
\* Calls of execute_command made by the caller in one behaviour.
MaxCalls == 2
\* Longest body of plain bytes the caller puts.
MaxBodyLen == 1

\* ------------------------------------------------------- program constants
DEFAULT_TTR == 120
socket_read_size == 65536
max_connections == 2
SYM_CRLF == <<"\r", "\n">>
\* Python's None for a socket handle; real sockets are numbered from 1.
None == 0

\* --------------------------------------------------------- byte strings
BodyBytes == {"x"}
Whitespace == {" ", "\r", "\n", "\t"}
Digits == <<"0", "1", "2", "3", "4", "5", "6", "7", "8", "9">>

RECURSIVE SeqsUpTo(_, _)
SeqsUpTo(S, n) ==
    IF n = 0 THEN {<<>>}
    ELSE LET shorter == SeqsUpTo(S, n - 1)
         IN shorter \cup {Append(s, x) : s \in {t \in shorter : Len(t) = n - 1}, x \in S}

\* The bodies the caller puts: the plain ones, the empty one among them, and
\* one that holds the line terminator.
Bodies == SeqsUpTo(BodyBytes, MaxBodyLen) \cup {SYM_CRLF}

Range(s) == {s[i] : i \in DOMAIN s}

Min(a, b) == IF a <= b THEN a ELSE b

\* str(n) of a non-negative integer: its decimal digits.
RECURSIVE str(_)
str(n) == IF n < 10 THEN <<Digits[n + 1]>> ELSE str(n \div 10) \o <<Digits[(n % 10) + 1]>>

\* The decimal numeral of 2 * h, for a product beyond TLC's 32-bit integers.
str_double(h) == str(h \div 5) \o <<Digits[2 * (h % 5) + 1]>>

\* 2 ** 31, as the numeral str() gives for it.
DEFAULT_PRIORITY == str_double(2 ^ 30)

IsNumber(w) == w # <<>> /\ \A i \in DOMAIN w : \E d \in DOMAIN Digits : Digits[d] = w[i]

DigitValue(u) == (CHOOSE d \in DOMAIN Digits : Digits[d] = u) - 1

\* int(w) of a word of decimal digits.
RECURSIVE int(_)
int(w) == IF Len(w) = 1 THEN DigitValue(w[1])
          ELSE 10 * int(SubSeq(w, 1, Len(w) - 1)) + DigitValue(w[Len(w)])

endswith(data, suffix) ==
    /\ Len(data) >= Len(suffix)
    /\ SubSeq(data, Len(data) - Len(suffix) + 1, Len(data)) = suffix

\* data[:-2]
DropLast2(data) == IF Len(data) <= 2 THEN <<>> ELSE SubSeq(data, 1, Len(data) - 2)

\* str.split(): the maximal runs of non-whitespace units, in order.
RECURSIVE split(_)
split(line) ==
    IF line = <<>> THEN <<>>
    ELSE IF Head(line) \in Whitespace THEN split(Tail(line))
    ELSE LET stops == {i \in DOMAIN line : line[i] \in Whitespace}
             n == IF stops = {} THEN Len(line)
                  ELSE (CHOOSE i \in stops : \A j \in stops : i <= j) - 1
         IN <<SubSeq(line, 1, n)>> \o split(SubSeq(line, n + 1, Len(line)))

\* Index of the first occurrence of SYM_CRLF in data, 0 when there is none.
FindCRLF(data) ==
    LET hits == {i \in 1..(Len(data) - 1) : data[i] = "\r" /\ data[i + 1] = "\n"}
    IN IF hits = {} THEN 0 ELSE CHOOSE i \in hits : \A j \in hits : i <= j

\* ------------------------------------------------------------------ state
VARIABLES
    ospid,             \* os.getpid() of the running process
    retry_on_timeout,  \* connection_options['retry_on_timeout']
    pool,              \* the ConnectionPool's fields
    conns,             \* every Connection object constructed so far, by identity
    socks,             \* the network: per socket, the bytes in flight each way
    jobs,              \* the queue server's jobs, by job id
    pc,                \* where the caller of execute_command stands
    cmd,               \* execute_command's args / kwargs
    connection,        \* execute_command's local "connection" (0: none)
    attempt,           \* 1 in the try block, 2 in the except block
    err,               \* the exception in flight
    response,          \* parse_response's local "response"
    outcome,           \* how the last call of execute_command ended
    calls,             \* history: calls of execute_command started
    sends,             \* history: calls of send_command made by the current call
    writes,            \* history: commands written whole to a socket by the current call
    faults,            \* history: transport faults injected during the current call
    served,            \* history: requests of the current call the server executed
    prev,              \* history: the call before the current one
    faulted,           \* history: the Connections a transport fault hit
    errs,              \* history: the exception each attempt of the current call raised
    op,                \* history: the last call on the ConnectionPool and the pool before it
    th,                \* per thread: where it stands in get_connection / release, its locals
    check_lock,        \* ConnectionPool._check_lock: the lock object it refers to
    lock_holder,       \* per lock object: the thread that holds it (0: free)
    resets,            \* history: runs of the disconnect-and-reset sequence of _checkpid
    constructed,       \* history: Connections constructed since the pool was last reset
    rd,                \* the call of Reader.read / Reader.readline in progress or just ended
    stream,            \* history: every byte the peer sends to the Reader's socket
    taken              \* history: bytes of the stream the Reader's calls have consumed

poolvars == <<ospid, retry_on_timeout, pool>>
framevars == <<cmd, connection, attempt, err, response>>
histvars == <<calls, sends, writes, faults, served, prev, faulted, errs>>
threadvars == <<th, check_lock, lock_holder, resets, constructed>>
readervars == <<rd, stream, taken>>
auxvars == <<op, threadvars, readervars>>
clientvars == <<retry_on_timeout, jobs, pc, framevars, outcome, histvars>>
vars == <<ospid, retry_on_timeout, pool, conns, socks, jobs, pc, cmd, connection,
          attempt, err, response, outcome, calls, sends, writes, faults, served,
          prev, faulted, errs, op, th, check_lock, lock_holder, resets, constructed,
          rd, stream, taken>>

\* ----------------------------------------------------------------- Reader
\* Reader.length
length(c) == c.bytes_written - c.bytes_read

\* Reader.purge
purge(c) == [c EXCEPT !.buffer = <<>>, !.bytes_written = 0, !.bytes_read = 0]

\* One pass of the loop of Reader._read_from_socket: buf.write(data) at
\* offset bytes_written and the counter update.
read_from_socket(c, data) ==
    [c EXCEPT !.buffer = SubSeq(c.buffer, 1, c.bytes_written) \o data,
              !.bytes_written = c.bytes_written + Len(data)]

\* buf.seek(bytes_read); buf.readline(): up to and including the next "\n",
\* or everything left when there is none.
buf_readline(c) ==
    LET rest == SubSeq(c.buffer, c.bytes_read + 1, Len(c.buffer))
        nl == {i \in DOMAIN rest : rest[i] = "\n"}
    IN IF nl = {} THEN rest
       ELSE SubSeq(rest, 1, CHOOSE i \in nl : \A j \in nl : i <= j)

\* A buf.read() that would take everything buffered.
buf_read_all(c, n) == SubSeq(c.buffer, c.bytes_read + 1, Len(c.buffer))

\* buf.seek(bytes_read); buf.read(n)
buf_read(c, n) == SubSeq(c.buffer, c.bytes_read + 1, Min(Len(c.buffer), c.bytes_read + n))

\* A tail of Reader.read / Reader.readline that would never purge.
consume_no_purge(c, data) == [c EXCEPT !.bytes_read = c.bytes_read + Len(data)]

\* The tail of Reader.read and Reader.readline: advance the read cursor by
\* the data taken and purge when it caught up with the write cursor.
consume(c, data) ==
    LET c1 == [c EXCEPT !.bytes_read = c.bytes_read + Len(data)]
    IN IF c1.bytes_read = c1.bytes_written THEN purge(c1) ELSE c1

\* Reader.readline's loop condition: a whole line is buffered.
line_ready(c) == endswith(buf_readline(c), SYM_CRLF)

\* Reader.read's condition for going to the socket, with length = size + 2.
body_ready(c, size) == ~(size + 2 > length(c))

\* ------------------------------------------------------- BaseParser, Connection
\* Connection.__init__
Connection(pid, retry) ==
    [pid |-> pid, retry_on_timeout |-> retry, sock |-> None, parser_sock |-> None,
     parser_buffer |-> FALSE, buffer |-> <<>>, bytes_written |-> 0, bytes_read |-> 0]

\* BaseParser.on_connect: bind the socket and a fresh Reader.
on_connect(c) ==
    [c EXCEPT !.parser_sock = c.sock, !.parser_buffer = TRUE, !.buffer = <<>>,
              !.bytes_written = 0, !.bytes_read = 0]

\* BaseParser.on_disconnect (with Reader.close)
on_disconnect(c) ==
    [c EXCEPT !.parser_sock = None, !.parser_buffer = FALSE, !.buffer = <<>>,
              !.bytes_written = 0, !.bytes_read = 0]

\* Connection.disconnect
disconnect(c) == [on_disconnect(c) EXCEPT !.sock = None]

\* A send_command whose except clauses would raise without disconnecting.
send_command_no_disconnect(c) == c

\* The except clauses of Connection.send_command: disconnect, then raise.
send_command_fault(c) == disconnect(c)

\* A read_response / read_body whose except clause would only re-raise.
read_no_disconnect(c) == c

\* The except clauses of Connection.read_response and Connection.read_body:
\* disconnect, then raise.
read_fault(c) == disconnect(c)

connected(c) == c.sock # None

\* Connection.pack_command.  An argument is held as the numeral str(arg)
\* gives for it.
RECURSIVE pack_args(_)
pack_args(args) ==
    IF args = <<>> THEN <<>> ELSE <<" ">> \o Head(args) \o pack_args(Tail(args))

pack_command(command, has_body, body, args) ==
    <<command>> \o pack_args(args)
    \o (IF has_body THEN <<" ">> \o str(Len(body)) \o SYM_CRLF \o body ELSE <<>>)
    \o SYM_CRLF

\* ---------------------------------------------------------- ConnectionPool
\* ConnectionPool.reset
reset ==
    [pid |-> ospid, created_connections |-> 0, available_connections |-> <<>>,
     in_use_connections |-> {}]

\* A ConnectionPool.disconnect that would leave the connections alone.
pool_disconnect_none(p, cs) == cs

\* ConnectionPool.disconnect: every connection of both collections.
pool_disconnect(p, cs) ==
    [i \in DOMAIN cs |->
        IF i \in Range(p.available_connections) \cup p.in_use_connections
        THEN disconnect(cs[i]) ELSE cs[i]]

\* ConnectionPool._checkpid, single-threaded: [pool, conns] after it.
checkpid(p, cs) ==
    IF p.pid # ospid
    THEN [pool |-> reset, conns |-> pool_disconnect(p, cs)]
    ELSE [pool |-> p, conns |-> cs]

\* A capacity test that would let one connection too many through.
too_many_off_by_one(p) == p.created_connections > max_connections

\* ConnectionPool.make_connection's capacity test.
too_many(p) == p.created_connections >= max_connections

\* ConnectionPool.get_connection (with make_connection).  A Connection is
\* known by its index in conns; a new one gets the next index.
get_connection(p0, cs0) ==
    LET chk == checkpid(p0, cs0)
        p == chk.pool
        cs == chk.conns
        avail == p.available_connections
    IN IF avail # <<>>
       THEN [raised |-> FALSE, connection |-> avail[Len(avail)], conns |-> cs,
             pool |-> [p EXCEPT !.available_connections = SubSeq(avail, 1, Len(avail) - 1),
                                !.in_use_connections = @ \cup {avail[Len(avail)]}]]
       ELSE IF too_many(p)
       THEN [raised |-> TRUE, connection |-> 0, conns |-> cs, pool |-> p]
       ELSE [raised |-> FALSE, connection |-> Len(cs) + 1,
             conns |-> Append(cs, Connection(ospid, retry_on_timeout)),
             pool |-> [p EXCEPT !.created_connections = @ + 1,
                                !.in_use_connections = @ \cup {Len(cs) + 1}]]

\* A release that would keep only connected Connections.
release_drops_disconnected(p0, cid, cs0) ==
    [raised |-> FALSE, conns |-> cs0,
     pool |-> [p0 EXCEPT !.in_use_connections = @ \ {cid},
                         !.available_connections =
                             IF connected(cs0[cid]) THEN Append(@, cid) ELSE @]]

\* A release that would append without removing from the in-use set.
release_keeps_in_use(p0, cid, cs0) ==
    [raised |-> FALSE, conns |-> cs0,
     pool |-> [p0 EXCEPT !.available_connections = Append(@, cid)]]

\* A release that would not compare the connection's pid with the pool's.
release_any_pid(p0, cid, cs0) ==
    LET chk == checkpid(p0, cs0)
        p == chk.pool
    IN IF cid \notin p.in_use_connections
       THEN [raised |-> TRUE, conns |-> chk.conns, pool |-> p]
       ELSE [raised |-> FALSE, conns |-> chk.conns,
             pool |-> [p EXCEPT !.in_use_connections = @ \ {cid},
                                !.available_connections = Append(@, cid)]]

\* ConnectionPool.release; raised: set.remove of a connection that is not in
\* the in-use set (KeyError).
release(p0, cid, cs0) ==
    LET chk == checkpid(p0, cs0)
        p == chk.pool
        cs == chk.conns
    IN IF cs[cid].pid # p.pid
       THEN [raised |-> FALSE, conns |-> cs, pool |-> p]
       ELSE IF cid \notin p.in_use_connections
       THEN [raised |-> TRUE, conns |-> cs, pool |-> p]
       ELSE [raised |-> FALSE, conns |-> cs,
             pool |-> [p EXCEPT !.in_use_connections = @ \ {cid},
                                !.available_connections = Append(@, cid)]]

\* ---------------------------------------------------------------- network
\* The sockets some Connection holds.
held(cs) == {cs[i].sock : i \in DOMAIN cs} \ {None}

\* A socket nobody has open: nothing in flight.
closed_socket == [open |-> FALSE, faulted |-> FALSE, req |-> <<>>, resp |-> <<>>]

\* socket.close() of every socket the step let go of: the bytes in flight
\* either way are lost with it.
close_released(sk, old, new) ==
    [s \in DOMAIN sk |-> IF s \in held(old) \ held(new) THEN closed_socket ELSE sk[s]]

\* The sockets a step closes.
released(old, new) == held(old) \ held(new)

\* socket.socket(): the lowest descriptor that is not open.
socket(sk) ==
    LET free == {s \in DOMAIN sk : ~sk[s].open}
    IN IF free = {} THEN Len(sk) + 1 ELSE CHOOSE s \in free : \A t \in free : s <= t

\* sock.connect(): the descriptor is open, nothing in flight.
open_socket(sk, s) ==
    LET fresh == [closed_socket EXCEPT !.open = TRUE]
    IN IF s \in DOMAIN sk THEN [sk EXCEPT ![s] = fresh] ELSE Append(sk, fresh)

\* ----------------------------------------------------------- queue server
\* A status line: the status word, its arguments, the line terminator.
RECURSIVE spaced(_)
spaced(words) == IF words = <<>> THEN <<>> ELSE <<" ">> \o Head(words) \o spaced(Tail(words))

status_line(status, words) == <<status>> \o spaced(words) \o SYM_CRLF

\* The request at the head of a socket's inbound bytes: the command line up
\* to its terminator and, for put, the declared number of body bytes and
\* their terminator.
parse_request(req) ==
    LET i == FindCRLF(req)
        words == IF i = 0 THEN <<>> ELSE split(SubSeq(req, 1, i - 1))
        name == IF words = <<>> THEN <<>> ELSE Head(words)
        sized == name = <<"put">> /\ Len(words) = 5 /\ IsNumber(words[5])
        n == IF sized THEN int(words[5]) ELSE 0
    IN [complete |-> i # 0 /\ (sized => Len(req) >= i + 1 + n + 2),
        name |-> name,
        words |-> words,
        body |-> IF sized THEN SubSeq(req, i + 2, i + 1 + n) ELSE <<>>,
        well_formed |->
            \/ name = <<"put">> /\ sized /\ SubSeq(req, i + 2 + n, i + 3 + n) = SYM_CRLF
            \/ name = <<"reserve">> /\ Len(words) = 1
            \/ name = <<"reserve-with-timeout">> /\ Len(words) = 2 /\ IsNumber(words[2])
            \/ name = <<"delete">> /\ Len(words) = 2 /\ IsNumber(words[2])]

ready(j) == jobs[j].state = "ready"

\* The server releases the jobs reserved over a socket when it is closed.
release_jobs(js, closed) ==
    [j \in DOMAIN js |->
        IF js[j].state = "reserved" /\ js[j].owner \in closed
        THEN [js[j] EXCEPT !.state = "ready", !.owner = None] ELSE js[j]]

first_ready ==
    LET rs == {j \in DOMAIN jobs : ready(j)}
    IN IF rs = {} THEN 0 ELSE CHOOSE j \in rs : \A k \in rs : j <= k

reply(bytes, js, done) == [bytes |-> bytes, jobs |-> js, done |-> done]

\* The statuses the server may answer instead of executing the command.
refusals(name) ==
    {<<"OUT_OF_MEMORY">>}
    \cup (IF name = <<"put">> THEN {<<"JOB_TOO_BIG">>, <<"DRAINING">>} ELSE {})
    \cup (IF name \in {<<"reserve">>, <<"reserve-with-timeout">>}
          THEN {<<"DEADLINE_SOON">>, <<"TIMED_OUT">>} ELSE {})

\* Every reply the server may give to request rq received on socket s.
server_replies(rq, s) ==
    IF ~rq.well_formed
    THEN {reply(status_line(IF rq.name = <<"put">> THEN "EXPECTED_CRLF"
                            ELSE "UNKNOWN_COMMAND", <<>>), jobs, FALSE)}
    ELSE {reply(status_line(st[1], <<>>), jobs, FALSE) : st \in refusals(rq.name)}
         \cup
         (IF rq.name = <<"put">>
          THEN LET id == Len(jobs) + 1
                   job == [body |-> rq.body, state |-> "ready", owner |-> None,
                           call |-> calls]
               IN {reply(status_line("INSERTED", <<str(id)>>), Append(jobs, job), TRUE),
                   \* a job the server buried is out of every client's reach:
                   \* the model keeps no record of it
                   reply(status_line("BURIED", <<str(id)>>), jobs, FALSE)}
          ELSE IF rq.name = <<"delete">>
          THEN LET id == int(rq.words[2])
               IN IF /\ id \in DOMAIN jobs
                     /\ \/ ready(id)
                        \/ jobs[id].state = "reserved" /\ jobs[id].owner = s
                  THEN {reply(status_line("DELETED", <<>>),
                              [jobs EXCEPT ![id].state = "deleted"], TRUE)}
                  ELSE {reply(status_line("NOT_FOUND", <<>>), jobs, FALSE)}
          ELSE \* reserve, reserve-with-timeout
               LET id == first_ready
               IN IF id = 0 THEN {}
                  ELSE {reply(status_line("RESERVED", <<str(id), str(Len(jobs[id].body))>>)
                                  \o jobs[id].body \o SYM_CRLF,
                              [jobs EXCEPT ![id].state = "reserved", ![id].owner = s],
                              TRUE)})

\* ------------------------------------------------------- Beanstalk tables
RESPONSE_CALLBACKS == {"reserve"}

EXPECTED_OK ==
    ("reserve" :> {<<"RESERVED">>}) @@ ("delete" :> {<<"DELETED">>})
    @@ ("put" :> {<<"INSERTED">>})

EXPECTED_ERR ==
    ("reserve" :> {<<"DEADLINE_SOON">>, <<"TIMED_OUT">>})
    @@ ("delete" :> {<<"DELETED">>, <<"NOT_FOUND">>})
    @@ ("put" :> {<<"JOB_TOO_BIG">>, <<"BURIED">>, <<"DRAINING">>})

\* The branch parse_response takes for a status: the lookups
\* self.expected_ok[command_name] and self.expected_err[command_name] raise
\* KeyError for a command name the tables do not hold.
classify(command_name, status) ==
    IF command_name \notin DOMAIN EXPECTED_OK THEN "KeyError"
    ELSE IF status \in EXPECTED_OK[command_name] THEN "ok"
    ELSE IF command_name \notin DOMAIN EXPECTED_ERR THEN "KeyError"
    ELSE IF status \in EXPECTED_ERR[command_name] THEN "ResponseError"
    ELSE "InvalidResponse"

\* An except clause that would catch every BeanstalkError.
caught_any_beanstalk_error(e) ==
    e \in {"ConnectionError", "TimeoutError", "ResponseError", "InvalidResponse"}

\* The except clause of execute_command catches these.
caught(e) == e \in {"ConnectionError", "TimeoutError"}

\* A re-raise test that would leave out the isinstance(e, TimeoutError).
reraise_any_error(c, e) == ~c.retry_on_timeout

\* "if not connection.retry_on_timeout and isinstance(e, TimeoutError): raise"
reraise(c, e) == ~c.retry_on_timeout /\ e = "TimeoutError"

\* A retry that would sit in a loop and handle the second failure too.
in_retry_loop(n) == n <= 2

\* The second send_command sits in the except clause, outside the try: an
\* exception is handled only when it comes out of the first attempt.
in_try(n) == n = 1

\* ------------------------------------------------------------- the caller
\* Beanstalk.put, Beanstalk.reserve and Beanstalk.delete: the arguments they
\* hand to execute_command.
put(body) ==
    [name |-> "put", args |-> <<DEFAULT_PRIORITY, str(0), str(DEFAULT_TTR)>>, has_body |-> TRUE,
     body |-> body]

reserve(with_timeout, timeout) ==
    IF with_timeout
    THEN [name |-> "reserve-with-timeout", args |-> <<str(timeout)>>, has_body |-> FALSE,
          body |-> <<>>]
    ELSE [name |-> "reserve", args |-> <<>>, has_body |-> FALSE, body |-> <<>>]

delete(job_id) ==
    [name |-> "delete", args |-> <<str(job_id)>>, has_body |-> FALSE, body |-> <<>>]

NoCommand == [name |-> "", args |-> <<>>, has_body |-> FALSE, body |-> <<>>]

\* The calls the caller may make: delete names the oldest job id or an id
\* the server has not given out.
Commands ==
    {put(b) : b \in Bodies} \cup {reserve(FALSE, 0), reserve(TRUE, 0)}
    \cup {delete(id) : id \in {1, Len(jobs) + 1}}

NoResponse == [status |-> <<>>, results |-> <<>>]

result(kind, resp, body) ==
    [kind |-> kind, status |-> resp.status, results |-> resp.results, body |-> body]

NoOutcome == result("none", NoResponse, <<>>)

\* ------------------------------------------------------------------ Init
\* The queue the client finds: empty, or holding a job of another producer.
InitialQueues ==
    {<<>>, <<[body |-> <<"x">>, state |-> "ready", owner |-> None, call |-> 0]>>}

\* No call on the ConnectionPool recorded yet.
NoOp == [name |-> "", conn |-> 0, raised |-> FALSE, known |-> 0,
         before |-> [pid |-> 0, created_connections |-> 0,
                     available_connections |-> <<>>, in_use_connections |-> {}]]

\* No thread runs; the pool's lock is the free one reset gave it.
NoThreads ==
    /\ th = <<>>
    /\ check_lock = 1
    /\ lock_holder = <<0>>
    /\ resets = 0
    /\ constructed = 0

\* No call of the Reader recorded yet.
NoRead == [op |-> "", n |-> 0, state |-> "idle", data |-> <<>>]

NoReader ==
    /\ rd = NoRead
    /\ stream = <<>>
    /\ taken = 0

\* No call of execute_command: the Beanstalk client stands idle.
NoClient ==
    /\ retry_on_timeout = FALSE
    /\ jobs = <<>>
    /\ pc = "idle"
    /\ cmd = NoCommand
    /\ connection = 0
    /\ attempt = 0
    /\ err = ""
    /\ response = NoResponse
    /\ outcome = NoOutcome
    /\ calls = 0
    /\ sends = 0
    /\ writes = 0
    /\ faults = 0
    /\ served = 0
    /\ prev = NoCommand
    /\ faulted = {}
    /\ errs = <<"", "">>

Init ==
    /\ op = NoOp
    /\ NoThreads
    /\ NoReader
    /\ ospid = 1
    /\ retry_on_timeout \in BOOLEAN
    /\ pool = reset
    /\ conns = <<>>
    /\ socks = <<>>
    /\ jobs \in InitialQueues
    /\ pc = "idle"
    /\ cmd = NoCommand
    /\ connection = 0
    /\ attempt = 0
    /\ err = ""
    /\ response = NoResponse
    /\ outcome = NoOutcome
    /\ calls = 0
    /\ sends = 0
    /\ writes = 0
    /\ faults = 0
    /\ served = 0
    /\ prev = NoCommand
    /\ faulted = {}
    /\ errs = <<"", "">>

\* --------------------------------------------------------------- actions
\* execute_command leaves through its finally clause: pool.release, then
\* the return value or the exception reaches the caller.
Finish(cs, sk, out) ==
    LET r == release(pool, connection, cs)
    IN /\ pool' = r.pool
       /\ conns' = r.conns
       /\ socks' = close_released(sk, conns, r.conns)
       /\ jobs' = release_jobs(jobs, released(conns, r.conns))
       /\ outcome' = IF r.raised THEN result("KeyError", NoResponse, <<>>) ELSE out
       /\ pc' = "idle"

\* send_command or parse_response raises e to execute_command.
Raise(cs, sk, e) ==
    /\ conns' = cs
    /\ socks' = close_released(sk, conns, cs)
    /\ jobs' = release_jobs(jobs, released(conns, cs))
    /\ err' = e
    /\ errs' = [errs EXCEPT ![attempt] = e]
    /\ pc' = "raised"

\* The call that just ended was a put without a transport fault that
\* returned INSERTED and left its job the only one of the queue.
round_trip_start ==
    /\ cmd.name = "put"
    /\ faults = 0
    /\ outcome.kind = "return"
    /\ Len(jobs) = 1
    /\ jobs[1].state = "ready"

\* The caller calls put, reserve or delete: execute_command up to its try.
Call ==
    /\ UNCHANGED auxvars
    /\ pc = "idle"
    /\ calls < MaxCalls
    /\ \E command \in Commands :
         LET g == get_connection(pool, conns)
         IN /\ cmd' = command
            /\ pool' = g.pool
            /\ conns' = g.conns
            /\ socks' = close_released(socks, conns, g.conns)
            /\ jobs' = release_jobs(jobs, released(conns, g.conns))
            /\ connection' = g.connection
            /\ IF g.raised
               THEN /\ pc' = "idle"
                    /\ attempt' = 0
                    /\ outcome' = result("ConnectionError", NoResponse, <<>>)
               ELSE /\ pc' = "send"
                    /\ attempt' = 1
                    /\ outcome' = NoOutcome
    /\ err' = ""
    /\ response' = NoResponse
    /\ calls' = calls + 1
    /\ sends' = 0
    /\ writes' = 0
    /\ faults' = 0
    /\ served' = 0
    /\ prev' = IF round_trip_start THEN cmd ELSE NoCommand
    /\ errs' = <<"", "">>
    /\ UNCHANGED <<ospid, retry_on_timeout, faulted>>

\* Connection.connect on a Connection without a socket, else the Connection
\* as it is.
connect(c, s) == IF connected(c) THEN c ELSE on_connect([c EXCEPT !.sock = s])

\* The sockets after Connection.connect.
connect_socks(c) == IF connected(c) THEN socks ELSE open_socket(socks, socket(socks))

\* Connection.send_command: connect if needed, sendall of the packed command.
SendOk ==
    /\ UNCHANGED auxvars
    /\ pc = "send"
    /\ LET c == connect(conns[connection], socket(socks))
           sk == connect_socks(conns[connection])
           command == pack_command(cmd.name, cmd.has_body, cmd.body, cmd.args)
       IN /\ conns' = [conns EXCEPT ![connection] = c]
          /\ socks' = [sk EXCEPT ![c.sock].req = @ \o command]
    /\ pc' = "read_response"
    /\ sends' = sends + 1
    /\ writes' = writes + 1
    /\ UNCHANGED <<poolvars, jobs, framevars, outcome, calls, faults, served, prev, faulted,
                   errs>>

\* Connection.send_command raises: connect fails (socket.timeout or
\* socket.error from _connect), or sendall fails and the except clauses run.
SendFault ==
    /\ UNCHANGED auxvars
    /\ pc = "send"
    /\ \E e \in {"TimeoutError", "ConnectionError"}, in_connect \in BOOLEAN :
         /\ in_connect => ~connected(conns[connection])
         /\ IF in_connect
            THEN Raise(conns, socks, e)
            ELSE LET c == connect(conns[connection], socket(socks))
                     sk == connect_socks(conns[connection])
                     c1 == send_command_fault(c)
                 IN /\ conns' = [conns EXCEPT ![connection] = c1]
                    /\ socks' = IF connected(c1)
                                THEN [sk EXCEPT ![c.sock].faulted = TRUE]
                                ELSE [sk EXCEPT ![c.sock] = closed_socket]
                    /\ jobs' = release_jobs(jobs, {c.sock} \ {c1.sock})
                    /\ err' = e
                    /\ errs' = [errs EXCEPT ![attempt] = e]
                    /\ pc' = "raised"
    /\ faulted' = faulted \cup {connection}
    /\ sends' = sends + 1
    /\ faults' = faults + 1
    /\ UNCHANGED <<poolvars, cmd, connection, attempt, response, outcome, calls,
                   writes, served, prev>>

\* The server takes the request a socket carries, executes it and answers.
Serve ==
    /\ UNCHANGED auxvars
    /\ \E s \in DOMAIN socks :
         LET rq == parse_request(socks[s].req)
         IN /\ rq.complete
            /\ \E rep \in server_replies(rq, s) :
                 /\ jobs' = rep.jobs
                 /\ socks' = [socks EXCEPT ![s].req = <<>>, ![s].resp = @ \o rep.bytes]
                 /\ served' = IF rep.done THEN served + 1 ELSE served
    /\ UNCHANGED <<poolvars, conns, pc, framevars, outcome, calls, sends, writes, faults,
                   prev, faulted, errs>>

\* The caller is blocked in sock.recv: Reader.readline has no whole line, or
\* Reader.read has fewer than size + 2 bytes.
blocked ==
    \/ pc = "read_response" /\ ~line_ready(conns[connection])
    \/ pc = "read_body" /\ ~body_ready(conns[connection], int(response.results[2]))

\* sock.recv returns some of the bytes in flight, at most socket_read_size.
Recv ==
    /\ UNCHANGED auxvars
    /\ blocked
    /\ LET c == conns[connection]
       IN \E k \in 1..Min(Len(socks[c.sock].resp), socket_read_size) :
            /\ conns' = [conns EXCEPT ![connection] =
                            read_from_socket(c, SubSeq(socks[c.sock].resp, 1, k))]
            /\ socks' = [socks EXCEPT ![c.sock].resp = SubSeq(@, k + 1, Len(@))]
    /\ UNCHANGED <<poolvars, jobs, pc, framevars, outcome, histvars>>

\* sock.recv times out, fails, or returns no bytes (peer closed):
\* Reader._read_from_socket raises TimeoutError or ConnectionError and
\* Connection.read_response / read_body disconnect before re-raising.
RecvFault ==
    /\ UNCHANGED auxvars
    /\ blocked
    /\ \E e \in {"TimeoutError", "ConnectionError"} :
         Raise([conns EXCEPT ![connection] = read_fault(@)],
               [socks EXCEPT ![conns[connection].sock].faulted = TRUE], e)
    /\ faults' = faults + 1
    /\ faulted' = faulted \cup {connection}
    /\ UNCHANGED <<poolvars, cmd, connection, attempt, response, outcome, calls,
                   sends, writes, served, prev>>

\* Reader.readline returns a line; BaseParser.read_response splits it and
\* Beanstalk.parse_response classifies the status.
ReadResponse ==
    /\ UNCHANGED auxvars
    /\ pc = "read_response"
    /\ line_ready(conns[connection])
    /\ LET data == buf_readline(conns[connection])
           c == consume(conns[connection], data)
           line == DropLast2(data)
           words == split(line)
           cs == [conns EXCEPT ![connection] = c]
           dead == [conns EXCEPT ![connection] = read_fault(c)]
           resp == [status |-> Head(words), results |-> Tail(words)]
           branch == classify(cmd.name, resp.status)
       IN IF line = <<>>
          THEN Raise(dead, socks, "ConnectionError") /\ UNCHANGED <<pool, response, outcome>>
          ELSE IF words = <<>>
          THEN Raise(dead, socks, "IndexError") /\ UNCHANGED <<pool, response, outcome>>
          ELSE /\ response' = resp
               /\ IF branch # "ok"
                  THEN Raise(cs, socks, branch) /\ UNCHANGED <<pool, outcome>>
                  ELSE IF cmd.name \notin RESPONSE_CALLBACKS
                  THEN Finish(cs, socks, result("return", resp, <<>>))
                       /\ UNCHANGED <<err, errs>>
                  \* parse_body: results[0], results[1], int(job_size)
                  ELSE IF Len(resp.results) < 2
                  THEN Raise(cs, socks, "IndexError") /\ UNCHANGED <<pool, outcome>>
                  ELSE IF ~IsNumber(resp.results[2])
                  THEN Raise(cs, socks, "ValueError") /\ UNCHANGED <<pool, outcome>>
                  ELSE /\ conns' = cs
                       /\ pc' = "read_body"
                       /\ UNCHANGED <<pool, socks, jobs, err, errs, outcome>>
    /\ UNCHANGED <<ospid, retry_on_timeout, cmd, connection, attempt, calls, sends, writes,
                   faults, served, prev, faulted>>

\* Reader.read returns the body; BaseParser.read and parse_body finish.
ReadBody ==
    /\ UNCHANGED auxvars
    /\ pc = "read_body"
    /\ body_ready(conns[connection], int(response.results[2]))
    /\ LET size == int(response.results[2])
           data == buf_read(conns[connection], size + 2)
           c == consume(conns[connection], data)
           body == DropLast2(data)
       IN IF body = <<>>
          THEN Raise([conns EXCEPT ![connection] = read_fault(c)], socks, "ConnectionError")
               /\ UNCHANGED <<pool, outcome>>
          ELSE Finish([conns EXCEPT ![connection] = c], socks,
                      result("return", response, body))
               /\ UNCHANGED <<err, errs>>
    /\ UNCHANGED <<ospid, retry_on_timeout, cmd, connection, attempt, response, calls,
                   sends, writes, faults, served, prev, faulted>>

\* The exception reaches execute_command: the except clause (disconnect,
\* then re-raise or go on to the second send_command) or, for an exception
\* it does not catch or one out of the second attempt, the finally clause.
Except ==
    /\ UNCHANGED auxvars
    /\ pc = "raised"
    /\ LET c == conns[connection]
           cs == [conns EXCEPT ![connection] = disconnect(c)]
       IN IF caught(err) /\ in_try(attempt)
          THEN IF reraise(c, err)
               THEN Finish(cs, socks, result(err, NoResponse, <<>>))
                    /\ UNCHANGED <<attempt, response>>
               ELSE /\ conns' = cs
                    /\ socks' = close_released(socks, conns, cs)
                    /\ jobs' = release_jobs(jobs, released(conns, cs))
                    /\ attempt' = attempt + 1
                    /\ response' = NoResponse
                    /\ pc' = "send"
                    /\ UNCHANGED <<pool, outcome>>
          ELSE Finish(conns, socks, result(err, response, <<>>))
               /\ UNCHANGED <<attempt, response>>
    /\ UNCHANGED <<ospid, retry_on_timeout, cmd, connection, err, histvars>>

Next ==
    \/ Call
    \/ SendOk
    \/ SendFault
    \/ Serve
    \/ Recv
    \/ RecvFault
    \/ ReadResponse
    \/ ReadBody
    \/ Except

Spec == Init /\ [][Next]_vars

\* ------------------------------------------------ the pool, single thread
\* Process-identity changes (forks) in one behaviour.
MaxForks == 2

PoolInit ==
    /\ ospid = 1
    /\ pool = reset
    /\ conns = <<>>
    /\ socks = <<>>
    /\ op = NoOp
    /\ NoClient
    /\ NoThreads
    /\ NoReader

\* What a call on the pool leaves in op.
called(name, cid, raised) ==
    [name |-> name, conn |-> cid, raised |-> raised, known |-> Len(conns), before |-> pool]

\* A caller calls ConnectionPool.get_connection.
PoolGet ==
    /\ LET g == get_connection(pool, conns)
       IN /\ pool' = g.pool
          /\ conns' = g.conns
          /\ socks' = close_released(socks, conns, g.conns)
          /\ op' = called("get_connection", g.connection, g.raised)
    /\ UNCHANGED <<ospid, clientvars, threadvars, readervars>>

\* A caller calls ConnectionPool.release with a Connection it knows.
PoolRelease ==
    /\ \E cid \in DOMAIN conns :
         LET r == release(pool, cid, conns)
         IN /\ pool' = r.pool
            /\ conns' = r.conns
            /\ socks' = close_released(socks, conns, r.conns)
            /\ op' = called("release", cid, r.raised)
    /\ UNCHANGED <<ospid, clientvars, threadvars, readervars>>

\* A caller calls ConnectionPool.disconnect.
PoolDisconnect ==
    /\ conns' = pool_disconnect(pool, conns)
    /\ socks' = close_released(socks, conns, conns')
    /\ op' = called("disconnect", 0, FALSE)
    /\ UNCHANGED <<ospid, pool, clientvars, threadvars, readervars>>

\* The borrower of a Connection connects it (Connection.connect).
PoolConnect ==
    /\ \E cid \in pool.in_use_connections :
         /\ ~connected(conns[cid])
         /\ conns' = [conns EXCEPT ![cid] = connect(@, socket(socks))]
         /\ socks' = open_socket(socks, socket(socks))
         /\ op' = called("connect", cid, FALSE)
    /\ UNCHANGED <<ospid, pool, clientvars, threadvars, readervars>>

\* The process forks and the behaviour goes on in the child: os.getpid()
\* changes, the objects are the copies the child inherits.
Fork ==
    /\ ospid < 1 + MaxForks
    /\ ospid' = ospid + 1
    /\ op' = called("fork", 0, FALSE)
    /\ UNCHANGED <<pool, conns, socks, clientvars, threadvars, readervars>>

PoolNext ==
    \/ PoolGet
    \/ PoolRelease
    \/ PoolDisconnect
    \/ PoolConnect
    \/ Fork

PoolSpec == PoolInit /\ [][PoolNext]_vars

\* ------------------------------------------- the pool, several threads
\* Threads of one process; each statement of get_connection, _checkpid,
\* reset, make_connection and release is one step, and the interpreter may
\* switch threads between any two of them.
Threads == {1, 2}

\* Calls of get_connection / release one thread makes.
MaxThreadCalls == 2

\* A thread that is in no method of the pool and holds no connection.
IdleThread ==
    [pc |-> "idle", call |-> "", lock |-> 0, tmp |-> 0, connection |-> 0, held |-> 0,
     calls |-> 0, raised |-> ""]

\* The Connections of an earlier use of the pool by the main thread.
earlier(n) == [i \in 1..n |-> Connection(1, FALSE)]

\* The pools the threads find, each with its Connections: just constructed;
\* all but one connection borrowed by the main thread; one connection back
\* in the available list.  The recorded pid is 1.
InitialPools ==
    {[pool |-> [pid |-> 1, created_connections |-> 0, available_connections |-> <<>>,
                in_use_connections |-> {}],
      conns |-> <<>>],
     [pool |-> [pid |-> 1, created_connections |-> max_connections - 1,
                available_connections |-> <<>>,
                in_use_connections |-> 1..(max_connections - 1)],
      conns |-> earlier(max_connections - 1)],
     [pool |-> [pid |-> 1, created_connections |-> 1, available_connections |-> <<1>>,
                in_use_connections |-> {}],
      conns |-> earlier(1)]}

\* The threads start in the process that built the pool (1) or in a child
\* forked from it (2), where the recorded pid is stale.
ThreadInit ==
    /\ ospid \in {1, 2}
    /\ \E i \in InitialPools :
         /\ pool = i.pool
         /\ conns = i.conns
         /\ constructed = i.pool.created_connections
    /\ socks = <<>>
    /\ th = [t \in Threads |-> IdleThread]
    /\ check_lock = 1
    /\ lock_holder = <<0>>
    /\ resets = 0
    /\ op = NoOp
    /\ NoClient
    /\ NoReader

\* "if self.pid != os.getpid()" at the head of _checkpid.
stale(p) == p.pid # ospid

\* A second test that would ignore what another thread did meanwhile.
always_stale(p) == TRUE

\* "if self.pid == os.getpid(): return" under the lock, negated.
still_stale(p) == p.pid # ospid

\* Where the method goes on after _checkpid.
after_checkpid(call) == IF call = "get_connection" THEN "pop" ELSE "release_pid"

\* Thread t moves to pc p with its locals changed as in r.
step(t, r) == th' = [th EXCEPT ![t] = r]

\* Thread t leaves the method: returned, or raised e.
leave(t, r, e) ==
    step(t, [r EXCEPT !.pc = "idle", !.call = "", !.calls = @ + 1, !.raised = e,
                      !.lock = 0, !.tmp = 0, !.connection = 0])

\* The thread calls get_connection, or release with the connection it holds.
ThCall(t) ==
    /\ th[t].pc = "idle"
    /\ th[t].calls < MaxThreadCalls
    /\ step(t, [th[t] EXCEPT !.pc = "checkpid", !.raised = "",
                             !.call = IF th[t].held = 0 THEN "get_connection"
                                      ELSE "release",
                             !.connection = th[t].held])
    /\ UNCHANGED <<ospid, pool, conns, socks, check_lock, lock_holder, resets,
                   constructed, op, clientvars, readervars>>

\* _checkpid: the first test of the pid.
ThCheckpid(t) ==
    /\ th[t].pc = "checkpid"
    /\ step(t, [th[t] EXCEPT !.pc = IF stale(pool) THEN "with_lock"
                                    ELSE after_checkpid(th[t].call)])
    /\ UNCHANGED <<ospid, pool, conns, socks, check_lock, lock_holder, resets,
                   constructed, op, clientvars, readervars>>

\* "with self._check_lock": the attribute is read.
ThLoadLock(t) ==
    /\ th[t].pc = "with_lock"
    /\ step(t, [th[t] EXCEPT !.pc = "acquire", !.lock = check_lock])
    /\ UNCHANGED <<ospid, pool, conns, socks, check_lock, lock_holder, resets,
                   constructed, op, clientvars, readervars>>

\* "with self._check_lock": the lock object is acquired once it is free.
ThAcquire(t) ==
    /\ th[t].pc = "acquire"
    /\ lock_holder[th[t].lock] = 0
    /\ lock_holder' = [lock_holder EXCEPT ![th[t].lock] = t]
    /\ step(t, [th[t] EXCEPT !.pc = "recheck"])
    /\ UNCHANGED <<ospid, pool, conns, socks, check_lock, resets, constructed, op,
                   clientvars, readervars>>

\* _checkpid: the second test of the pid, under the lock; "return" leaves
\* the with block and releases the lock object that was acquired.
ThRecheck(t) ==
    /\ th[t].pc = "recheck"
    /\ IF still_stale(pool)
       THEN /\ step(t, [th[t] EXCEPT !.pc = "disconnect"])
            /\ UNCHANGED lock_holder
       ELSE /\ step(t, [th[t] EXCEPT !.pc = after_checkpid(th[t].call), !.lock = 0])
            /\ lock_holder' = [lock_holder EXCEPT ![th[t].lock] = 0]
    /\ UNCHANGED <<ospid, pool, conns, socks, check_lock, resets, constructed, op,
                   clientvars, readervars>>

\* _checkpid: self.disconnect(), the start of the disconnect-and-reset
\* sequence.
ThDisconnect(t) ==
    /\ th[t].pc = "disconnect"
    /\ conns' = pool_disconnect(pool, conns)
    /\ socks' = close_released(socks, conns, conns')
    /\ resets' = resets + 1
    /\ step(t, [th[t] EXCEPT !.pc = "reset_pid"])
    /\ UNCHANGED <<ospid, pool, check_lock, lock_holder, constructed, op, clientvars,
                   readervars>>

\* reset: self.pid = os.getpid()
ThResetPid(t) ==
    /\ th[t].pc = "reset_pid"
    /\ pool' = [pool EXCEPT !.pid = ospid]
    /\ step(t, [th[t] EXCEPT !.pc = "reset_created"])
    /\ UNCHANGED <<ospid, conns, socks, check_lock, lock_holder, resets, constructed,
                   op, clientvars, readervars>>

\* reset: self._created_connections = 0
ThResetCreated(t) ==
    /\ th[t].pc = "reset_created"
    /\ pool' = [pool EXCEPT !.created_connections = 0]
    /\ constructed' = 0
    /\ step(t, [th[t] EXCEPT !.pc = "reset_available"])
    /\ UNCHANGED <<ospid, conns, socks, check_lock, lock_holder, resets, op,
                   clientvars, readervars>>

\* reset: self._available_connections = []
ThResetAvailable(t) ==
    /\ th[t].pc = "reset_available"
    /\ pool' = [pool EXCEPT !.available_connections = <<>>]
    /\ step(t, [th[t] EXCEPT !.pc = "reset_in_use"])
    /\ UNCHANGED <<ospid, conns, socks, check_lock, lock_holder, resets, constructed,
                   op, clientvars, readervars>>

\* reset: self._in_use_connections = set()
ThResetInUse(t) ==
    /\ th[t].pc = "reset_in_use"
    /\ pool' = [pool EXCEPT !.in_use_connections = {}]
    /\ step(t, [th[t] EXCEPT !.pc = "reset_lock"])
    /\ UNCHANGED <<ospid, conns, socks, check_lock, lock_holder, resets, constructed,
                   op, clientvars, readervars>>

\* reset: self._check_lock = threading.Lock(), a new lock object, free.
ThResetLock(t) ==
    /\ th[t].pc = "reset_lock"
    /\ check_lock' = Len(lock_holder) + 1
    /\ lock_holder' = Append(lock_holder, 0)
    /\ step(t, [th[t] EXCEPT !.pc = "unlock"])
    /\ UNCHANGED <<ospid, pool, conns, socks, resets, constructed, op, clientvars,
                   readervars>>

\* The with block ends: the lock object acquired at its head is released.
ThUnlock(t) ==
    /\ th[t].pc = "unlock"
    /\ lock_holder' = [lock_holder EXCEPT ![th[t].lock] = 0]
    /\ step(t, [th[t] EXCEPT !.pc = after_checkpid(th[t].call), !.lock = 0])
    /\ UNCHANGED <<ospid, pool, conns, socks, check_lock, resets, constructed, op,
                   clientvars, readervars>>

\* get_connection: "connection = self._available_connections.pop()", or
\* IndexError and on to make_connection.
ThPop(t) ==
    /\ th[t].pc = "pop"
    /\ LET avail == pool.available_connections
       IN IF avail # <<>>
          THEN /\ pool' = [pool EXCEPT !.available_connections =
                                           SubSeq(avail, 1, Len(avail) - 1)]
               /\ step(t, [th[t] EXCEPT !.pc = "add", !.connection = avail[Len(avail)]])
          ELSE /\ step(t, [th[t] EXCEPT !.pc = "make_check"])
               /\ UNCHANGED pool
    /\ UNCHANGED <<ospid, conns, socks, check_lock, lock_holder, resets, constructed,
                   op, clientvars, readervars>>

\* make_connection: the test of the created count; ConnectionError("Too
\* many connections") leaves get_connection.
ThMakeCheck(t) ==
    /\ th[t].pc = "make_check"
    /\ IF too_many(pool)
       THEN leave(t, th[t], "ConnectionError")
       ELSE step(t, [th[t] EXCEPT !.pc = "make_load"])
    /\ UNCHANGED <<ospid, pool, conns, socks, check_lock, lock_holder, resets,
                   constructed, op, clientvars, readervars>>

\* make_connection: "self._created_connections += 1", the read.
ThMakeLoad(t) ==
    /\ th[t].pc = "make_load"
    /\ step(t, [th[t] EXCEPT !.pc = "make_store", !.tmp = pool.created_connections])
    /\ UNCHANGED <<ospid, pool, conns, socks, check_lock, lock_holder, resets,
                   constructed, op, clientvars, readervars>>

\* make_connection: "self._created_connections += 1", the write.
ThMakeStore(t) ==
    /\ th[t].pc = "make_store"
    /\ pool' = [pool EXCEPT !.created_connections = th[t].tmp + 1]
    /\ step(t, [th[t] EXCEPT !.pc = "make_new", !.tmp = 0])
    /\ UNCHANGED <<ospid, conns, socks, check_lock, lock_holder, resets, constructed,
                   op, clientvars, readervars>>

\* make_connection: "return Connection(**self.connection_options)"
ThMakeNew(t) ==
    /\ th[t].pc = "make_new"
    /\ conns' = Append(conns, Connection(ospid, FALSE))
    /\ constructed' = constructed + 1
    /\ step(t, [th[t] EXCEPT !.pc = "add", !.connection = Len(conns) + 1])
    /\ UNCHANGED <<ospid, pool, socks, check_lock, lock_holder, resets, op,
                   clientvars, readervars>>

\* get_connection: "self._in_use_connections.add(connection)" and return.
ThAdd(t) ==
    /\ th[t].pc = "add"
    /\ pool' = [pool EXCEPT !.in_use_connections = @ \cup {th[t].connection}]
    /\ leave(t, [th[t] EXCEPT !.held = th[t].connection], "")
    /\ UNCHANGED <<ospid, conns, socks, check_lock, lock_holder, resets, constructed,
                   op, clientvars, readervars>>

\* release: "if connection.pid != self.pid: return"
ThReleasePid(t) ==
    /\ th[t].pc = "release_pid"
    /\ IF conns[th[t].connection].pid # pool.pid
       THEN leave(t, [th[t] EXCEPT !.held = 0], "")
       ELSE step(t, [th[t] EXCEPT !.pc = "remove"])
    /\ UNCHANGED <<ospid, pool, conns, socks, check_lock, lock_holder, resets,
                   constructed, op, clientvars, readervars>>

\* release: "self._in_use_connections.remove(connection)"; KeyError when
\* the set does not hold it.
ThRemove(t) ==
    /\ th[t].pc = "remove"
    /\ IF th[t].connection \in pool.in_use_connections
       THEN /\ pool' = [pool EXCEPT !.in_use_connections = @ \ {th[t].connection}]
            /\ step(t, [th[t] EXCEPT !.pc = "append"])
       ELSE /\ leave(t, [th[t] EXCEPT !.held = 0], "KeyError")
            /\ UNCHANGED pool
    /\ UNCHANGED <<ospid, conns, socks, check_lock, lock_holder, resets, constructed,
                   op, clientvars, readervars>>

\* release: "self._available_connections.append(connection)" and return.
ThAppend(t) ==
    /\ th[t].pc = "append"
    /\ pool' = [pool EXCEPT !.available_connections = Append(@, th[t].connection)]
    /\ leave(t, [th[t] EXCEPT !.held = 0], "")
    /\ UNCHANGED <<ospid, conns, socks, check_lock, lock_holder, resets, constructed,
                   op, clientvars, readervars>>

ThreadNext ==
    \E t \in Threads :
        \/ ThCall(t)
        \/ ThCheckpid(t)
        \/ ThLoadLock(t)
        \/ ThAcquire(t)
        \/ ThRecheck(t)
        \/ ThDisconnect(t)
        \/ ThResetPid(t)
        \/ ThResetCreated(t)
        \/ ThResetAvailable(t)
        \/ ThResetInUse(t)
        \/ ThResetLock(t)
        \/ ThUnlock(t)
        \/ ThPop(t)
        \/ ThMakeCheck(t)
        \/ ThMakeLoad(t)
        \/ ThMakeStore(t)
        \/ ThMakeNew(t)
        \/ ThAdd(t)
        \/ ThReleasePid(t)
        \/ ThRemove(t)
        \/ ThAppend(t)

ThreadSpec == ThreadInit /\ [][ThreadNext]_vars

\* ------------------------------------------------------ the Reader alone
\* Bytes the peer sends in one behaviour.
MaxStream == 6
\* Largest length passed to Reader.read.
MaxRead == 2

StreamBytes == {"x", "\r", "\n"}

\* The Connection whose parser holds the Reader, and its socket.
TheReader == 1

\* A connected Connection: its Reader is new, and the peer's bytes are on
\* their way to the socket.
ReaderInit ==
    /\ ospid = 1
    /\ pool = reset
    /\ stream \in SeqsUpTo(StreamBytes, MaxStream)
    /\ conns = <<on_connect([Connection(1, FALSE) EXCEPT !.sock = TheReader])>>
    /\ socks = <<[open |-> TRUE, faulted |-> FALSE, req |-> <<>>, resp |-> stream]>>
    /\ rd = NoRead
    /\ taken = 0
    /\ op = NoOp
    /\ NoClient
    /\ NoThreads

\* The call in progress waits in _read_from_socket.
rd_blocked ==
    /\ rd.state = "reading"
    /\ IF rd.op = "read" THEN ~body_ready(conns[TheReader], rd.n)
       ELSE ~line_ready(conns[TheReader])

\* A caller calls Reader.read(n).
ReaderRead ==
    /\ rd.state # "reading"
    /\ \E n \in 0..MaxRead : rd' = [op |-> "read", n |-> n, state |-> "reading", data |-> <<>>]
    /\ UNCHANGED <<ospid, pool, conns, socks, stream, taken, op, clientvars, threadvars>>

\* A caller calls Reader.readline().
ReaderReadline ==
    /\ rd.state # "reading"
    /\ rd' = [op |-> "readline", n |-> 0, state |-> "reading", data |-> <<>>]
    /\ UNCHANGED <<ospid, pool, conns, socks, stream, taken, op, clientvars, threadvars>>

\* sock.recv returns a non-empty chunk of the bytes in flight.
ReaderRecv ==
    /\ rd_blocked
    /\ LET c == conns[TheReader]
       IN \E k \in 1..Min(Len(socks[c.sock].resp), socket_read_size) :
            /\ conns' = [conns EXCEPT ![TheReader] =
                            read_from_socket(c, SubSeq(socks[c.sock].resp, 1, k))]
            /\ socks' = [socks EXCEPT ![c.sock].resp = SubSeq(@, k + 1, Len(@))]
    /\ UNCHANGED <<ospid, pool, rd, stream, taken, op, clientvars, threadvars>>

\* sock.recv times out or fails: _read_from_socket raises TimeoutError or
\* ConnectionError out of the call, the Reader staying as it is.
ReaderRecvFault ==
    /\ rd_blocked
    /\ rd' = [rd EXCEPT !.state = "raised"]
    /\ UNCHANGED <<ospid, pool, conns, socks, stream, taken, op, clientvars, threadvars>>

\* Reader.read / Reader.readline has the bytes it needs: it takes them
\* from the buffer, moves the read cursor and returns data[:-2].
ReaderReturn ==
    /\ rd.state = "reading"
    /\ ~rd_blocked
    /\ LET c == conns[TheReader]
           data == IF rd.op = "read" THEN buf_read(c, rd.n + 2) ELSE buf_readline(c)
       IN /\ conns' = [conns EXCEPT ![TheReader] = consume(c, data)]
          /\ rd' = [rd EXCEPT !.state = "returned", !.data = DropLast2(data)]
          /\ taken' = taken + Len(data)
    /\ UNCHANGED <<ospid, pool, socks, stream, op, clientvars, threadvars>>

ReaderNext ==
    \/ ReaderRead
    \/ ReaderReadline
    \/ ReaderRecv
    \/ ReaderRecvFault
    \/ ReaderReturn

ReaderSpec == ReaderInit /\ [][ReaderNext]_vars

\* ----------------------------------------------------------------- claims
TransportErrors == {"TimeoutError", "ConnectionError"}

\* A call of execute_command that borrowed a connection has returned or
\* raised to its caller.
Returned == pc = "idle" /\ calls > 0 /\ connection # 0

\* get_connection has just handed the connection to execute_command.
HandedOut == pc = "send" /\ sends = 0

Available == Range(pool.available_connections)

\* C1: when the first attempt fails with TimeoutError, send_command is
\* called once more if the connection's retry_on_timeout is set and not at
\* all (the TimeoutError reaches the caller) if it is clear; when it fails
\* with ConnectionError, send_command is called once more whatever the flag;
\* and a second send_command is only ever reached that way.
C1_RetryDecision ==
    /\ (pc = "send" /\ attempt = 2) =>
          /\ sends = 1
          /\ errs[1] \in TransportErrors
          /\ errs[1] = "TimeoutError" => conns[connection].retry_on_timeout
    /\ Returned =>
          /\ (errs[1] = "TimeoutError" /\ ~conns[connection].retry_on_timeout) =>
                (sends = 1 /\ outcome.kind = "TimeoutError")
          /\ (errs[1] = "TimeoutError" /\ conns[connection].retry_on_timeout) => sends = 2
          /\ errs[1] = "ConnectionError" => sends = 2

\* A timeout of the first attempt was retried, the flag being set.
C1_Witness ==
    /\ Returned
    /\ errs[1] = "TimeoutError"
    /\ conns[connection].retry_on_timeout
    /\ sends = 2

\* C2: one call of execute_command calls send_command, and writes the
\* command to a socket, at most twice, and a TimeoutError or ConnectionError
\* out of the second attempt is what the caller gets.
C2_BoundedRetry ==
    /\ attempt <= 2
    /\ sends <= 2
    /\ writes <= 2
    /\ (Returned /\ errs[2] \in TransportErrors) => (outcome.kind = errs[2] /\ sends = 2)

\* Both attempts wrote the command and both failed.
C2_Witness ==
    /\ Returned
    /\ writes = 2
    /\ errs[1] = "ConnectionError"
    /\ errs[2] = "TimeoutError"

\* C3, as stated: a Connection a transport-level error hit is never in the
\* available set and is never handed out by a later get_connection.
C3_FaultedNeverPooled ==
    \A c \in faulted :
        /\ c \notin Available
        /\ (HandedOut /\ attempt = 1) => connection # c

\* C3, amended: the socket a transport-level error hit is destroyed: no
\* Connection of the pool holds a socket that is closed or that a fault hit.
\* The Connection object itself is back in the available set when
\* execute_command ends.
C3_FaultedSocketDestroyed ==
    /\ \A c \in Available \cup pool.in_use_connections :
          connected(conns[c]) =>
              (socks[conns[c].sock].open /\ ~socks[conns[c].sock].faulted)
    /\ (Returned /\ faults > 0) => connection \in Available

\* A Connection that a transport-level error hit in an earlier call is
\* handed out again.
C3_Witness == HandedOut /\ attempt = 1 /\ connection \in faulted

\* C4: when execute_command has returned or raised, the connection it
\* borrowed is out of the in-use set and in the available set.
C4_ReleasedOnExit ==
    Returned =>
        /\ connection \notin pool.in_use_connections
        /\ connection \in Available

\* The retry failed too, the fault reached the caller, and the connection
\* is back in the pool.
C4_Witness ==
    /\ Returned
    /\ attempt = 2
    /\ outcome.kind = "ConnectionError"
    /\ connection \in Available

\* C5: a connection get_connection hands out connected has no bytes of an
\* earlier response pending, neither in its Reader buffer nor on its socket.
C5_CleanHandOut ==
    (HandedOut /\ connected(conns[connection])) =>
        /\ length(conns[connection]) = 0
        /\ socks[conns[connection].sock].resp = <<>>

\* C6: reserve with a timeout returns the job (id, body of the declared
\* length) on RESERVED and raises ResponseError carrying the status on
\* DEADLINE_SOON or TIMED_OUT.
C6_ReserveWithTimeout ==
    (Returned /\ cmd.name = "reserve-with-timeout" /\ faults = 0) =>
        /\ response.status = <<"RESERVED">> =>
              /\ outcome.kind = "return"
              /\ outcome.results = response.results
              /\ Len(outcome.body) = int(response.results[2])
        /\ response.status \in {<<"DEADLINE_SOON">>, <<"TIMED_OUT">>} =>
              /\ outcome.kind = "ResponseError"
              /\ outcome.status = response.status

\* The statuses the claims name for each command.
SuccessOf(name) ==
    CASE name = "put" -> {<<"INSERTED">>}
      [] name = "reserve" -> {<<"RESERVED">>}
      [] name = "delete" -> {<<"DELETED">>}

ErrorsOf(name) ==
    CASE name = "put" -> {<<"JOB_TOO_BIG">>, <<"BURIED">>, <<"DRAINING">>}
      [] name = "reserve" -> {<<"DEADLINE_SOON">>, <<"TIMED_OUT">>}
      [] name = "delete" -> {<<"NOT_FOUND">>}

\* A call of put, reserve or delete ended, no transport fault was injected,
\* and its last attempt read a status line.
Classified ==
    /\ Returned
    /\ cmd.name \in {"put", "reserve", "delete"}
    /\ faults = 0
    /\ response # NoResponse

\* C7: for put, reserve and delete, a status of the success set gives a
\* normal return, one of the error set ResponseError carrying the command's
\* status and arguments, any other status InvalidResponse.
C7_StatusClassification ==
    Classified =>
        /\ response.status \in SuccessOf(cmd.name) => outcome.kind = "return"
        /\ response.status \in ErrorsOf(cmd.name) =>
              /\ outcome.kind = "ResponseError"
              /\ outcome.status = response.status
              /\ outcome.results = response.results
        /\ response.status \notin SuccessOf(cmd.name) \cup ErrorsOf(cmd.name) =>
              outcome.kind = "InvalidResponse"

\* C8: a put on an empty queue followed, without transport fault, by a
\* reserve the server answers with the job: the reserve returns the body
\* that was put, and the server reserved a job once.
C8_RoundTrip ==
    (Returned /\ cmd.name = "reserve" /\ prev.name = "put" /\ faults = 0
        /\ response.status = <<"RESERVED">>) =>
        /\ outcome.kind = "return"
        /\ outcome.body = prev.body
        /\ served = 1

\* C9: when send_command, read_response or read_body raises TimeoutError or
\* ConnectionError, the connection is disconnected: it has no socket, its
\* parser is unbound from socket and Reader, and no socket is left open
\* that no Connection holds or that a fault hit.
C9_DisconnectedOnFault ==
    (pc = "raised" /\ err \in TransportErrors) =>
        /\ conns[connection].sock = None
        /\ conns[connection].parser_sock = None
        /\ ~conns[connection].parser_buffer
        /\ \A s \in DOMAIN socks :
              socks[s].open => (s \in held(conns) /\ ~socks[s].faulted)

\* A read timed out after the command had been written.
C9_Witness ==
    /\ pc = "raised"
    /\ err = "TimeoutError"
    /\ writes = attempt
    /\ faults > 0

\* C10, as stated: a call that ends in ResponseError or InvalidResponse has
\* sent the command exactly once and leaves the connection connected in
\* the pool.
C10_SentOnce ==
    (Returned /\ outcome.kind \in {"ResponseError", "InvalidResponse"}) =>
        /\ sends = 1
        /\ connected(conns[connection])
        /\ connection \in Available

\* C10, amended: ResponseError and InvalidResponse are never retried: the
\* attempt whose status was classified is the last one (the second only
\* after a transport error of the first), the error reaches the caller with
\* that status and arguments, and the connection is back in the pool,
\* connected, on an open socket.
C10_ClassificationNotRetried ==
    /\ (pc = "raised" /\ err \in {"ResponseError", "InvalidResponse"}) =>
          connected(conns[connection])
    /\ (Returned /\ outcome.kind \in {"ResponseError", "InvalidResponse"}) =>
          /\ sends = attempt
          /\ errs[attempt] = outcome.kind
          /\ attempt = 2 => errs[1] \in TransportErrors
          /\ outcome.status = response.status
          /\ outcome.results = response.results
          /\ connected(conns[connection])
          /\ socks[conns[connection].sock].open
          /\ connection \in Available

\* The server answered the only attempt with a recognized error status.
C10_Witness ==
    /\ Returned
    /\ outcome.kind = "ResponseError"
    /\ sends = 1
    /\ connected(conns[connection])

\* The pool as _checkpid leaves it for the call recorded in op.
AfterCheckpid == IF op.before.pid # ospid THEN reset ELSE op.before

\* The connections the pool tracked before the call recorded in op.
TrackedBefore == Range(op.before.available_connections) \cup op.before.in_use_connections

\* C11: single thread: after any sequence of get_connection, release,
\* disconnect and forks, the created count is at most max_connections and
\* the available and in-use collections together hold at most that many
\* connections.
C11_PoolCapacity ==
    /\ pool.created_connections <= max_connections
    /\ Len(pool.available_connections) + Cardinality(pool.in_use_connections)
          <= pool.created_connections

\* After a fork and the reset, the pool is filled to its capacity again.
C11_Witness ==
    /\ ospid > 1
    /\ pool.pid = ospid
    /\ pool.created_connections = max_connections
    /\ Len(pool.available_connections) + Cardinality(pool.in_use_connections)
          = max_connections

\* C12, as stated: get_connection never raises "Too many connections" while
\* a connection is available or created < max_connections, always raises it
\* when created = max_connections and none is available, and changes nothing
\* when it raises.
C12_Exhaustion ==
    op.name = "get_connection" =>
        /\ op.raised =>
              /\ op.before.available_connections = <<>>
              /\ op.before.created_connections >= max_connections
              /\ pool = op.before
        /\ (op.before.created_connections = max_connections
              /\ op.before.available_connections = <<>>) => op.raised

\* C12, amended: the same, the pool being the one _checkpid hands on: when
\* the recorded pid is stale, get_connection resets the pool first and
\* returns a new connection although it was exhausted.
C12_ExhaustionAfterCheckpid ==
    op.name = "get_connection" =>
        /\ op.raised =>
              /\ op.before.pid = ospid
              /\ op.before.available_connections = <<>>
              /\ op.before.created_connections >= max_connections
              /\ pool = op.before
        /\ (AfterCheckpid.created_connections = max_connections
              /\ AfterCheckpid.available_connections = <<>>) => op.raised
        /\ (op.before.pid # ospid) => ~op.raised

\* get_connection raised on the exhausted pool of the running process.
C12_Witness ==
    /\ op.name = "get_connection"
    /\ op.raised
    /\ op.before.pid = ospid
    /\ Cardinality(op.before.in_use_connections) = max_connections

\* C13: a get_connection that finds the recorded pid stale disconnects
\* every connection the pool tracked, and returns a Connection constructed
\* by it in the new process, the only one in use and the only one counted,
\* the available list empty and the new pid recorded.
C13_PostForkReset ==
    (op.name = "get_connection" /\ op.before.pid # ospid) =>
        /\ ~op.raised
        /\ \A c \in TrackedBefore :
              /\ ~connected(conns[c])
              /\ conns[c].parser_sock = None
              /\ ~conns[c].parser_buffer
        /\ pool.pid = ospid
        /\ pool.created_connections = 1
        /\ pool.available_connections = <<>>
        /\ pool.in_use_connections = {op.conn}
        /\ op.conn > op.known
        /\ conns[op.conn].pid = ospid
        /\ ~connected(conns[op.conn])

\* The reset dropped connections of both collections, one of them connected
\* when the process forked.
C13_Witness ==
    /\ op.name = "get_connection"
    /\ op.before.pid # ospid
    /\ op.before.available_connections # <<>>
    /\ op.before.in_use_connections # {}
    /\ \E s \in DOMAIN socks : ~socks[s].open

\* C14: release of a connection whose pid is not the pool's (after the
\* reset the release may itself trigger) returns without raising and leaves
\* the pool as that reset left it; no such connection is tracked or handed
\* out by the pool of the running process; release of a borrowed connection
\* of the pool's pid moves it from the in-use set to the end of the
\* available list.
C14_ReleasePreFork ==
    /\ op.name = "release" =>
          /\ conns[op.conn].pid # ospid => (~op.raised /\ pool = AfterCheckpid)
          /\ (conns[op.conn].pid = ospid /\ op.conn \in op.before.in_use_connections) =>
                /\ ~op.raised
                /\ pool.in_use_connections = op.before.in_use_connections \ {op.conn}
                /\ pool.available_connections =
                      Append(op.before.available_connections, op.conn)
                /\ pool.created_connections = op.before.created_connections
    /\ (op.name = "get_connection" /\ ~op.raised) => conns[op.conn].pid = ospid
    /\ pool.pid = ospid =>
          \A c \in Range(pool.available_connections) \cup pool.in_use_connections :
              conns[c].pid = ospid

\* A connection borrowed before the fork is released in the child, and the
\* release itself resets the pool.
C14_Witness ==
    /\ op.name = "release"
    /\ conns[op.conn].pid # ospid
    /\ op.before.pid # ospid
    /\ op.conn \in op.before.in_use_connections
    /\ op.before.created_connections = max_connections

\* The steps of the disconnect-and-reset sequence of _checkpid.
InReset ==
    {"disconnect", "reset_pid", "reset_created", "reset_available", "reset_in_use",
     "reset_lock", "unlock"}

\* C15: threads of one post-fork process race through _checkpid on a pool
\* whose recorded pid is stale: the disconnect-and-reset sequence is run by
\* one thread at a time and once in all, for every interleaving; it has run
\* when the first call returns, and never runs when the pid is not stale.
C15_SingleReset ==
    /\ resets <= 1
    /\ Cardinality({t \in Threads : th[t].pc \in InReset}) <= 1
    /\ ospid = 1 => resets = 0
    /\ (ospid # 1 /\ \E t \in Threads : th[t].calls > 0) => resets = 1

\* A thread that saw the stale pid gets the lock after the reset of another
\* and is about to test the pid again.
C15_Witness ==
    /\ resets = 1
    /\ pool.pid = ospid
    /\ \E t \in Threads : th[t].pc = "recheck"

\* C16: every connection get_connection returned is in the in-use set and
\* counted in created for as long as its thread holds it, and its release
\* does not raise.
C16_NoLostConnection ==
    \A t \in Threads :
        /\ (th[t].pc = "idle" /\ th[t].held # 0) =>
              /\ pool.pid = ospid
              /\ th[t].held \in pool.in_use_connections
              /\ pool.created_connections >= 1
        /\ th[t].raised # "KeyError"

\* C19: the Connections constructed since the last reset never number more
\* than max_connections, and no two threads hold the same connection.
C19_CapacityUnderConcurrency ==
    /\ constructed <= max_connections
    /\ \A t, u \in Threads :
          (t # u /\ th[t].held # 0) => th[t].held # th[u].held

\* The bytes the Reader holds unread.
Unread == SubSeq(conns[TheReader].buffer, conns[TheReader].bytes_read + 1,
                 Len(conns[TheReader].buffer))

\* C17: Reader.read(n) returns n bytes, the n bytes of the stream that
\* follow what earlier calls consumed, and consumes them and the 2 bytes
\* after them, however the bytes were split across receives.
C17_ReadExact ==
    (rd.state = "returned" /\ rd.op = "read") =>
        /\ Len(rd.data) = rd.n
        /\ rd.data = SubSeq(stream, taken - rd.n - 1, taken - 2)

\* A read returned its bytes after an earlier call had consumed some, and
\* bytes of the next frame, received with them, stay buffered.
C17_Witness ==
    /\ rd.state = "returned"
    /\ rd.op = "read"
    /\ rd.n > 0
    /\ taken > rd.n + 2
    /\ Unread # <<>>

\* C18: bytes_read never exceeds bytes_written, which is the size of the
\* buffer; when a call returns having consumed all that was written, both
\* counters are zero and the buffer is empty; and no unread byte is ever
\* dropped: what is buffered unread and what is still in flight are the
\* rest of the stream.
C18_BufferInvariant ==
    /\ conns[TheReader].bytes_read <= conns[TheReader].bytes_written
    /\ conns[TheReader].bytes_written = Len(conns[TheReader].buffer)
    /\ (rd.state = "returned"
          /\ Unread = <<>>) =>
              /\ conns[TheReader].bytes_read = 0
              /\ conns[TheReader].bytes_written = 0
              /\ conns[TheReader].buffer = <<>>
    /\ SubSeq(stream, taken + 1, Len(stream)) = Unread \o socks[TheReader].resp

\* A call returned and reclaimed the buffer after an earlier call had left
\* bytes in it.
C18_Witness ==
    /\ rd.state = "returned"
    /\ conns[TheReader].bytes_written = 0
    /\ taken > Len(rd.data) + 2
    /\ socks[TheReader].resp # <<>>

\* The jobs the server inserted for the current call of execute_command.
Inserted == {j \in DOMAIN jobs : jobs[j].call = calls}

\* C20: one call of put inserts at most one job into the server's queue,
\* wherever a transport fault or timeout hits the exchange, a fault between
\* the server's execution of the put and the client's reading of INSERTED
\* included.
C20_AtMostOnce == cmd.name = "put" => Cardinality(Inserted) <= 1

====
